---- MODULE Spec2Model ----
(***************************************************************************)
(* Model of jotti.go: the command-line uploader for virusscan.jotti.org.   *)
(* main() walks os.Args[1:] one file at a time: stat, size ceiling, SHA1,  *)
(* lookup (checkJottiSearch), upload (uploadFile), 1 s sleep.  The file    *)
(* system and the remote service are the environment: every stat, read and *)
(* HTTP exchange draws its result from a small set.                        *)
(***************************************************************************)
EXTENDS Integers, Sequences, FiniteSets

(* ---------------- bounds of the model ---------------- *)
MaxFiles == 2      \* longest argument list explored
MaxContent == 1    \* number of distinct file contents
MaxBody == 2       \* longest response body, in segments
MaxTotal == 3      \* longest encoded multipart body, in bytes
MaxReads == 4      \* most Read calls made on one upload stream

(* ---------------- program constants ---------------- *)
maxUploadSize == 250 * 1024 * 1024
jottiChecksumURL == "https://virusscan.jotti.org/en-US/search/hash/%s"
RateLimitMarker == "Too many requests"
NotFoundMarker == "Hash not found"
StatusOK == 200
RateLimitExitCode == 2
FatalExitCode == 1
FlagErrorExitCode == 2
Running == -1      \* exitCode while the process has not exited
RenderInterval == 150          \* ms, 150*time.Millisecond
ZeroTime == -1000000           \* ms, the zero time.Time lastTick starts at: far in the past

(* ---------------- the environment's answers ---------------- *)
Flags == {"none", "version", "cyclone", "help", "bad"}
Statuses == {StatusOK, 429, 503}
Segments == {RateLimitMarker, NotFoundMarker, "<html>"}
Bodies == UNION {[1..n -> Segments] : n \in 0..MaxBody}
Sizes == {maxUploadSize, maxUploadSize + 1}
Contents == 1..MaxContent

\* what os.Stat can report for a path
StatResults ==
    {[err |-> TRUE, kind |-> "none", size |-> 0]}
    \cup {[err |-> FALSE, kind |-> "regular", size |-> s] : s \in Sizes}
    \cup {[err |-> FALSE, kind |-> "dir", size |-> 4096],
          [err |-> FALSE, kind |-> "special", size |-> 0]}

\* what opening and streaming the file can give
FileReads ==
    {[ok |-> FALSE, content |-> 0]}
    \cup {[ok |-> TRUE, content |-> c] : c \in Contents}

\* what httpClient.Get can give: no response, a response whose body cannot
\* be read to the end, or a status with a body
LookupResponses ==
    {[neterr |-> TRUE, status |-> 0, readerr |-> FALSE, body |-> <<>>]}
    \cup {[neterr |-> FALSE, status |-> StatusOK, readerr |-> TRUE, body |-> <<>>]}
    \cup {[neterr |-> FALSE, status |-> s, readerr |-> FALSE, body |-> b] :
            s \in Statuses, b \in Bodies}

\* what opening the file and httpClient.Do can give; sent tells whether the
\* transport drained the request body before the exchange ended
UploadAttempts ==
    {[local |-> FALSE, neterr |-> FALSE, status |-> 0, body |-> <<>>, sent |-> FALSE]}
    \cup {[local |-> TRUE, neterr |-> TRUE, status |-> 0, body |-> <<>>, sent |-> sn] :
            sn \in BOOLEAN}
    \cup {[local |-> TRUE, neterr |-> FALSE, status |-> s, body |-> b, sent |-> sn] :
            s \in Statuses, b \in Bodies, sn \in BOOLEAN}

(* ---------------- pure helpers ---------------- *)
NoURL == <<>>
NoSum == <<>>

\* strings.Contains(body, marker) on a body made of segments
Contains(body, marker) == \E k \in DOMAIN body : body[k] = marker

\* hex(sha1(content)): a function of the bytes, distinct for distinct contents
SHA1(content) == <<"sha1", content>>

\* fmt.Sprintf(template, checksum)
Sprintf(template, sum) == <<template, sum>>

\* flag.Parse and the checks at the top of main: the exit code, or Running
mainStart(flag, n) ==
    IF flag = "bad" THEN FlagErrorExitCode
    ELSE IF flag = "version" THEN 0
    ELSE IF flag = "cyclone" THEN 0
    ELSE IF 1 + (IF flag = "none" THEN 0 ELSE 1) + n < 2 THEN FatalExitCode
    ELSE IF flag = "help" THEN 0
    ELSE Running

statDecision_NoDir(fi) ==
    IF fi.err THEN "staterr"
    ELSE IF fi.size > maxUploadSize THEN "oversize"
    ELSE "ok"

statDecision_GE(fi) ==
    IF fi.err THEN "staterr"
    ELSE IF fi.kind = "dir" THEN "dir"
    ELSE IF fi.size >= maxUploadSize THEN "oversize"
    ELSE "ok"

\* the three checks main makes on the os.Stat result
statDecision(fi) ==
    IF fi.err THEN "staterr"
    ELSE IF fi.kind = "dir" THEN "dir"
    ELSE IF fi.size > maxUploadSize THEN "oversize"
    ELSE "ok"

calculateSHA1Checksum(fr) ==
    IF ~fr.ok THEN [sum |-> NoSum, err |-> TRUE]
    ELSE [sum |-> SHA1(fr.content), err |-> FALSE]

LookupReturn(exit, found, url, err) ==
    [exit |-> exit, found |-> found, url |-> url, err |-> err]

checkJottiSearch_NoRateCheck(sum, resp) ==
    LET searchURL == Sprintf(jottiChecksumURL, sum) IN
    IF resp.neterr THEN LookupReturn(Running, FALSE, NoURL, TRUE)
    ELSE IF resp.status = StatusOK THEN
        IF resp.readerr THEN LookupReturn(Running, FALSE, NoURL, TRUE)
        ELSE IF Contains(resp.body, NotFoundMarker)
            THEN LookupReturn(Running, FALSE, searchURL, FALSE)
        ELSE LookupReturn(Running, TRUE, searchURL, FALSE)
    ELSE LookupReturn(Running, FALSE, NoURL, TRUE)

checkJottiSearch_NotFoundAsFound(sum, resp) ==
    LET searchURL == Sprintf(jottiChecksumURL, sum) IN
    IF resp.neterr THEN LookupReturn(Running, FALSE, NoURL, TRUE)
    ELSE IF resp.status = StatusOK THEN
        IF resp.readerr THEN LookupReturn(Running, FALSE, NoURL, TRUE)
        ELSE IF Contains(resp.body, RateLimitMarker)
            THEN LookupReturn(RateLimitExitCode, FALSE, NoURL, FALSE)
        ELSE LookupReturn(Running, TRUE, searchURL, FALSE)
    ELSE LookupReturn(Running, FALSE, NoURL, TRUE)

checkJottiSearch_ExitOne(sum, resp) ==
    LET searchURL == Sprintf(jottiChecksumURL, sum) IN
    IF resp.neterr THEN LookupReturn(Running, FALSE, NoURL, TRUE)
    ELSE IF resp.status = StatusOK THEN
        IF resp.readerr THEN LookupReturn(Running, FALSE, NoURL, TRUE)
        ELSE IF Contains(resp.body, RateLimitMarker)
            THEN LookupReturn(FatalExitCode, FALSE, NoURL, FALSE)
        ELSE IF Contains(resp.body, NotFoundMarker)
            THEN LookupReturn(Running, FALSE, searchURL, FALSE)
        ELSE LookupReturn(Running, TRUE, searchURL, FALSE)
    ELSE LookupReturn(Running, FALSE, NoURL, TRUE)

checkJottiSearch_IgnoreStatus(sum, resp) ==
    LET searchURL == Sprintf(jottiChecksumURL, sum) IN
    IF resp.neterr THEN LookupReturn(Running, FALSE, NoURL, TRUE)
    ELSE IF resp.readerr THEN LookupReturn(Running, FALSE, NoURL, TRUE)
    ELSE IF Contains(resp.body, RateLimitMarker) /\ resp.status = StatusOK
        THEN LookupReturn(RateLimitExitCode, FALSE, NoURL, FALSE)
    ELSE IF Contains(resp.body, NotFoundMarker)
        THEN LookupReturn(Running, FALSE, searchURL, FALSE)
    ELSE LookupReturn(Running, TRUE, searchURL, FALSE)

\* checkJottiSearch: exit is the os.Exit code, or Running when it returns
checkJottiSearch(sum, resp) ==
    LET searchURL == Sprintf(jottiChecksumURL, sum) IN
    IF resp.neterr THEN LookupReturn(Running, FALSE, NoURL, TRUE)
    ELSE IF resp.status = StatusOK THEN
        IF resp.readerr THEN LookupReturn(Running, FALSE, NoURL, TRUE)
        ELSE IF Contains(resp.body, RateLimitMarker)
            THEN LookupReturn(RateLimitExitCode, FALSE, NoURL, FALSE)
        ELSE IF Contains(resp.body, NotFoundMarker)
            THEN LookupReturn(Running, FALSE, searchURL, FALSE)
        ELSE LookupReturn(Running, TRUE, searchURL, FALSE)
    ELSE LookupReturn(Running, FALSE, NoURL, TRUE)

\* uploadFile: TRUE when it returns a non-nil error
uploadFile(att) ==
    IF ~att.local THEN TRUE
    ELSE IF att.neterr THEN TRUE
    ELSE att.status # StatusOK

mainAfterLookup_AlwaysUpload(r) ==
    IF r.err THEN "error" ELSE "upload"

\* main's branch on what checkJottiSearch returned
mainAfterLookup(r) ==
    IF r.err THEN "error"
    ELSE IF r.found THEN "found"
    ELSE "upload"

Min(a, b) == IF a < b THEN a ELSE b

\* bytes.Reader.Read on a source of total bytes at offset pos, into a buffer of
\* lenb bytes: io.EOF once the offset is at the end, else the bytes that fit
srcRead(pos, total, lenb) ==
    IF pos >= total THEN [n |-> 0, eof |-> TRUE]
    ELSE [n |-> Min(lenb, total - pos), eof |-> FALSE]

prRead_CountsBuffer(q, pos, lenb, now) ==
    LET u == srcRead(pos, q.total, lenb)
        read1 == IF u.n > 0 THEN q.read + lenb ELSE q.read
        shows == u.n > 0 /\ (now - q.lastTick >= RenderInterval \/ read1 = q.total)
    IN [p |-> [total |-> q.total, read |-> read1,
               lastTick |-> IF shows THEN now ELSE q.lastTick],
        pos |-> pos + u.n, n |-> u.n, eof |-> u.eof, srcCalls |-> 1,
        render |-> shows, done |-> u.eof]

prRead_NoTick(q, pos, lenb, now) ==
    LET u == srcRead(pos, q.total, lenb)
        read1 == IF u.n > 0 THEN q.read + u.n ELSE q.read
        shows == u.n > 0 /\ (now - q.lastTick >= RenderInterval \/ read1 = q.total)
    IN [p |-> [total |-> q.total, read |-> read1, lastTick |-> q.lastTick],
        pos |-> pos + u.n, n |-> u.n, eof |-> u.eof, srcCalls |-> 1,
        render |-> shows, done |-> u.eof]

prRead_SwallowEOF(q, pos, lenb, now) ==
    LET u == srcRead(pos, q.total, lenb)
        read1 == IF u.n > 0 THEN q.read + u.n ELSE q.read
        shows == u.n > 0 /\ (now - q.lastTick >= RenderInterval \/ read1 = q.total)
    IN [p |-> [total |-> q.total, read |-> read1,
               lastTick |-> IF shows THEN now ELSE q.lastTick],
        pos |-> pos + u.n, n |-> u.n, eof |-> FALSE, srcCalls |-> 1,
        render |-> shows, done |-> u.eof]

\* progressReader.Read: the reader after the call, the offset of the source,
\* what is returned, and whether render() and renderDone() were called
prRead(q, pos, lenb, now) ==
    LET u == srcRead(pos, q.total, lenb)
        read1 == IF u.n > 0 THEN q.read + u.n ELSE q.read
        shows == u.n > 0 /\ (now - q.lastTick >= RenderInterval \/ read1 = q.total)
    IN [p |-> [total |-> q.total, read |-> read1,
               lastTick |-> IF shows THEN now ELSE q.lastTick],
        pos |-> pos + u.n,
        n |-> u.n,
        eof |-> u.eof,
        srcCalls |-> 1,
        render |-> shows,
        done |-> u.eof]

resultURL_Template(sum) == Sprintf(jottiChecksumURL, NoSum)

\* the URL main prints after a successful upload
resultURL(sum) == Sprintf(jottiChecksumURL, sum)

(* ---------------- state ---------------- *)
VARIABLES
    pc,          \* position of main: init, stat, hash, lookup, upload, sleep, exited
    argc,        \* number of file arguments, os.Args[1:] = 1..argc
    idx,         \* index of the file the loop is at
    checksum,    \* digest of the current file
    exitCode,    \* process exit status, Running until it exits
    out,         \* lines written to stdout and stderr, in order
    calls,       \* history: operations performed, in order, as <<op, file>>
    outcome,     \* history: terminal outcome per file
    statSeen,    \* history: what os.Stat reported per file
    digest,      \* history: the checksum computed per file, NoSum if none
    lookupSeen,  \* history: what the service answered to the lookup per file
    rateSeen,    \* history: some response body carried the rate-limit marker
    prOpen,      \* an upload stream exists
    p,           \* the progressReader: total, read, lastTick
    srcPos,      \* offset of p.r, the bytes.Reader over the encoded body
    clock,       \* time.Now(), in ms
    prHist       \* history of the upload stream: results, renders, reference reader

prVars == <<prOpen, p, srcPos, clock, prHist>>

vars == <<pc, argc, idx, checksum, exitCode, out, calls, outcome, statSeen,
          digest, lookupSeen, rateSeen, prVars>>

FileIds == 1..MaxFiles

NoStat == [seen |-> FALSE, err |-> FALSE, kind |-> "none", size |-> 0]
NoLookup == [seen |-> FALSE, net |-> FALSE, ok |-> FALSE, nf |-> FALSE, rl |-> FALSE,
             res |-> "none", url |-> NoURL]

\* the LookupResult the orchestrator receives, Exit when the call never returns
LookupResult(r) ==
    IF r.exit # Running THEN "Exit"
    ELSE IF r.err THEN "Error"
    ELSE IF r.found THEN "Found"
    ELSE "NotFound"

Line(f, kind, url, sum) == [f |-> f, kind |-> kind, url |-> url, sum |-> sum]

NoResult == [n |-> 0, eof |-> FALSE]
NoHist ==
    [nReads |-> 0,              \* Read calls made on the progressReader
     srcCalls |-> 0,            \* Read calls made on the underlying source
     last |-> NoResult,         \* what the last Read returned
     refPos |-> 0,              \* offset of a bytes.Reader read directly with the same buffers
     refLast |-> NoResult,      \* what that direct Read returned
     renders |-> 0,             \* render() calls
     finalRenders |-> 0,        \* render() calls made with read = total
     lastRenderAt |-> ZeroTime, \* time of the latest render() call
     lastRenderRead |-> 0,      \* p.read at the latest render() call
     prevRenderAt |-> ZeroTime, \* time of the render() call before the latest
     doneRenders |-> 0,         \* renderDone() calls
     doneBeforeEnd |-> FALSE]   \* renderDone() was called with read < total

Init ==
    /\ pc = "init"
    /\ argc = 0
    /\ idx = 1
    /\ checksum = NoSum
    /\ exitCode = Running
    /\ out = <<>>
    /\ calls = <<>>
    /\ outcome = [f \in FileIds |-> "none"]
    /\ statSeen = [f \in FileIds |-> NoStat]
    /\ digest = [f \in FileIds |-> NoSum]
    /\ lookupSeen = [f \in FileIds |-> NoLookup]
    /\ rateSeen = FALSE
    /\ prOpen = FALSE
    /\ p = [total |-> 0, read |-> 0, lastTick |-> ZeroTime]
    /\ srcPos = 0
    /\ clock = 0
    /\ prHist = NoHist

statLog_SilentDir(f, d) ==
    IF d = "dir" THEN <<>>
    ELSE <<Line(f, IF d = "staterr" THEN "error" ELSE "skip", NoURL, NoSum)>>

\* the log.Printf of the three early exits of the loop body
statLog(f, d) ==
    <<Line(f, IF d = "staterr" THEN "error" ELSE "skip", NoURL, NoSum)>>

Continue_Break ==
    /\ idx' = idx + 1
    /\ pc' = "exited"
    /\ exitCode' = 0

Continue_RetryOnce ==
    LET attempts == Len(SelectSeq(calls', LAMBDA c : c = <<"stat", idx>>))
        failed == calls'[Len(calls')][1] \in {"lookup", "upload"}
    IN IF attempts < 2 /\ failed
         THEN /\ idx' = idx
              /\ pc' = "stat"
              /\ exitCode' = exitCode
         ELSE /\ idx' = idx + 1
              /\ pc' = IF idx + 1 > argc THEN "exited" ELSE "stat"
              /\ exitCode' = IF idx + 1 > argc THEN 0 ELSE exitCode

\* `continue`, or falling off the loop body: next file, or return from main
Continue ==
    /\ idx' = idx + 1
    /\ pc' = IF idx + 1 > argc THEN "exited" ELSE "stat"
    /\ exitCode' = IF idx + 1 > argc THEN 0 ELSE exitCode

\* process start: flag.Parse, -version, -cyclone, the argument check, -help
Launch ==
    /\ pc = "init"
    /\ \E flag \in Flags, n \in 0..MaxFiles :
         LET code == mainStart(flag, n) IN
         /\ argc' = n
         /\ exitCode' = code
         /\ pc' = IF code = Running THEN "stat" ELSE "exited"
         /\ out' = IF code = FatalExitCode
                      THEN Append(out, Line(0, "error", NoURL, NoSum))
                      ELSE out
    /\ UNCHANGED <<idx, checksum, calls, outcome, statSeen, digest, lookupSeen, rateSeen>>
    /\ UNCHANGED prVars

\* os.Stat and the directory and size checks
StatStep ==
    /\ pc = "stat"
    /\ \E fi \in StatResults :
         LET d == statDecision(fi) IN
         /\ calls' = Append(calls, <<"stat", idx>>)
         /\ statSeen' = [statSeen EXCEPT ![idx] =
                           [seen |-> TRUE, err |-> fi.err, kind |-> fi.kind, size |-> fi.size]]
         /\ IF d = "ok"
              THEN /\ pc' = "hash"
                   /\ UNCHANGED <<idx, exitCode, out, outcome>>
              ELSE /\ out' = out \o statLog(idx, d)
                   /\ outcome' = [outcome EXCEPT ![idx] =
                                    IF d = "staterr" THEN "Error" ELSE "Skipped"]
                   /\ Continue
    /\ UNCHANGED <<argc, checksum, digest, lookupSeen, rateSeen>>
    /\ UNCHANGED prVars

\* calculateSHA1Checksum and the checksum line
HashStep ==
    /\ pc = "hash"
    /\ \E fr \in FileReads :
         LET r == calculateSHA1Checksum(fr) IN
         /\ calls' = Append(calls, <<"hash", idx>>)
         /\ IF r.err
              THEN /\ out' = Append(out, Line(idx, "error", NoURL, NoSum))
                   /\ outcome' = [outcome EXCEPT ![idx] = "Error"]
                   /\ Continue
                   /\ UNCHANGED <<checksum, digest>>
              ELSE /\ checksum' = r.sum
                   /\ digest' = [digest EXCEPT ![idx] = r.sum]
                   /\ out' = Append(out, Line(idx, "checksum", NoURL, r.sum))
                   /\ pc' = "lookup"
                   /\ UNCHANGED <<idx, exitCode, outcome>>
    /\ UNCHANGED <<argc, statSeen, lookupSeen, rateSeen>>
    /\ UNCHANGED prVars

\* checkJottiSearch and main's handling of its result
LookupStep ==
    /\ pc = "lookup"
    /\ \E resp \in LookupResponses :
         LET r == checkJottiSearch(checksum, resp)
             answered == ~resp.neterr /\ ~resp.readerr
             b == mainAfterLookup(r)
         IN
         /\ calls' = Append(calls, <<"lookup", idx>>)
         /\ lookupSeen' = [lookupSeen EXCEPT ![idx] =
               [seen |-> TRUE, net |-> answered,
                ok |-> answered /\ resp.status = StatusOK,
                nf |-> answered /\ resp.status = StatusOK
                         /\ Contains(resp.body, NotFoundMarker),
                rl |-> answered /\ Contains(resp.body, RateLimitMarker),
                res |-> LookupResult(r), url |-> r.url]]
         /\ rateSeen' = (rateSeen \/ (answered /\ Contains(resp.body, RateLimitMarker)))
         /\ IF r.exit # Running
              THEN /\ out' = Append(out, Line(idx, "error", NoURL, NoSum))
                   /\ pc' = "exited"
                   /\ exitCode' = r.exit
                   /\ UNCHANGED <<idx, outcome>>
              ELSE IF b = "error"
              THEN /\ out' = Append(out, Line(idx, "error", NoURL, NoSum))
                   /\ outcome' = [outcome EXCEPT ![idx] = "Error"]
                   /\ Continue
              ELSE IF b = "found"
              THEN /\ out' = Append(out, Line(idx, "found", r.url, NoSum))
                   /\ outcome' = [outcome EXCEPT ![idx] = "AlreadyScanned"]
                   /\ Continue
              ELSE /\ out' = Append(out, Line(idx, "uploading", NoURL, NoSum))
                   /\ pc' = "upload"
                   /\ UNCHANGED <<idx, exitCode, outcome>>
    /\ UNCHANGED <<argc, checksum, statSeen, digest>>
    /\ UNCHANGED prVars

\* uploadFile and main's handling of its result
UploadStep ==
    /\ pc = "upload"
    /\ \E att \in UploadAttempts :
         LET failed == uploadFile(att)
             shown == IF att.local /\ att.sent
                        THEN <<Line(idx, "progress", NoURL, NoSum)>> ELSE <<>>
         IN
         /\ calls' = Append(calls, <<"upload", idx>>)
         /\ rateSeen' = (rateSeen \/ (att.local /\ ~att.neterr
                                        /\ Contains(att.body, RateLimitMarker)))
         /\ IF failed
              THEN /\ out' = out \o shown \o <<Line(idx, "error", NoURL, NoSum)>>
                   /\ outcome' = [outcome EXCEPT ![idx] = "Error"]
                   /\ Continue
              ELSE /\ out' = out \o shown
                               \o <<Line(idx, "ok", NoURL, NoSum),
                                    Line(idx, "url", resultURL(checksum), NoSum)>>
                   /\ outcome' = [outcome EXCEPT ![idx] = "Uploaded"]
                   /\ pc' = "sleep"
                   /\ UNCHANGED <<idx, exitCode>>
    /\ UNCHANGED <<argc, checksum, statSeen, digest, lookupSeen>>
    /\ UNCHANGED prVars

\* time.Sleep(1000 ms) at the end of the loop body
SleepStep ==
    /\ pc = "sleep"
    /\ calls' = Append(calls, <<"sleep", idx>>)
    /\ Continue
    /\ UNCHANGED <<argc, checksum, out, outcome, statSeen, digest, lookupSeen, rateSeen>>
    /\ UNCHANGED prVars

mainVars == <<pc, argc, idx, checksum, exitCode, out, calls, outcome, statSeen,
              digest, lookupSeen, rateSeen>>

BufSizes == 0..MaxTotal
Elapsed == {0, RenderInterval - 1, RenderInterval}

\* uploadFile wraps the encoded body: r = bytes.NewReader(raw), total = len(raw)
PROpen ==
    /\ ~prOpen
    /\ \E len \in 1..MaxTotal :
         p' = [total |-> len, read |-> 0, lastTick |-> ZeroTime]
    /\ prOpen' = TRUE
    /\ srcPos' = 0
    /\ UNCHANGED <<clock, prHist, mainVars>>

\* one Read call by the consumer of the request body, with a buffer of lenb
\* bytes, dt ms after the previous call
PRRead ==
    /\ prOpen
    /\ prHist.nReads < MaxReads
    /\ \E lenb \in BufSizes, dt \in Elapsed :
         LET now == clock + dt
             r == prRead(p, srcPos, lenb, now)
             ref == srcRead(prHist.refPos, p.total, lenb)
         IN
         /\ clock' = now
         /\ p' = r.p
         /\ srcPos' = r.pos
         /\ prHist' =
               [nReads |-> prHist.nReads + 1,
                srcCalls |-> prHist.srcCalls + r.srcCalls,
                last |-> [n |-> r.n, eof |-> r.eof],
                refPos |-> prHist.refPos + ref.n,
                refLast |-> [n |-> ref.n, eof |-> ref.eof],
                renders |-> prHist.renders + (IF r.render THEN 1 ELSE 0),
                finalRenders |-> prHist.finalRenders
                                   + (IF r.render /\ r.p.read = r.p.total THEN 1 ELSE 0),
                lastRenderAt |-> IF r.render THEN now ELSE prHist.lastRenderAt,
                lastRenderRead |-> IF r.render THEN r.p.read ELSE prHist.lastRenderRead,
                prevRenderAt |-> IF r.render THEN prHist.lastRenderAt
                                             ELSE prHist.prevRenderAt,
                doneRenders |-> prHist.doneRenders + (IF r.done THEN 1 ELSE 0),
                doneBeforeEnd |-> prHist.doneBeforeEnd
                                    \/ (r.done /\ r.p.read < r.p.total)]
    /\ UNCHANGED <<prOpen, mainVars>>

Next ==
    \/ Launch
    \/ StatStep
    \/ HashStep
    \/ LookupStep
    \/ UploadStep
    \/ SleepStep

Spec == Init /\ [][Next]_vars

\* main is one sequential thread and every call it makes returns (the HTTP
\* client has a 30 s timeout), so a step that can be taken is taken
FairSpec == Spec /\ WF_vars(Next)

\* one upload stream and the Read calls made on it
NextPR ==
    \/ PROpen
    \/ PRRead

SpecPR == Init /\ [][NextPR]_vars

(* ---------------- vocabulary of the properties ---------------- *)
Called(op, f) == \E k \in DOMAIN calls : calls[k] = <<op, f>>
CalledBefore(op1, op2, f) ==
    \E j, k \in DOMAIN calls : j < k /\ calls[j] = <<op1, f>> /\ calls[k] = <<op2, f>>
CallsOf(f) == SelectSeq(calls, LAMBDA c : c[2] = f)
FileOut(f) == SelectSeq(out, LAMBDA l : l.f = f)
Kinds(f) == [k \in DOMAIN FileOut(f) |-> FileOut(f)[k].kind]
Passed(f) == f < idx
RateExit(f) == lookupSeen[f].ok /\ lookupSeen[f].rl
LoopCompleted == pc = "exited" /\ argc >= 1 /\ idx = argc + 1

\* C1: a lookup answered with HTTP 200 and a body carrying "Too many requests"
\* ends the process at once with a non-zero exit status: the lookup is the last
\* operation of the run, the file gets no outcome and no upload, and no later
\* file is touched.
C1_RateLimitTerminates ==
    \A f \in FileIds :
        RateExit(f) =>
            /\ pc = "exited"
            /\ exitCode = RateLimitExitCode
            /\ exitCode # 0
            /\ idx = f
            /\ lookupSeen[f].res = "Exit"
            /\ outcome[f] = "none"
            /\ calls[Len(calls)] = <<"lookup", f>>
            /\ ~Called("upload", f)
            /\ \A g \in FileIds : g > f => CallsOf(g) = <<>> /\ FileOut(g) = <<>>

C1_Witness ==
    \E f \in FileIds : RateExit(f) /\ f < argc /\ pc = "exited"

\* C2: a file is uploaded if and only if its lookup returned NotFound; Found
\* ends the file as AlreadyScanned with the path and result URL printed and no
\* upload; a lookup Error ends the file with no upload; the upload never
\* precedes the lookup.
C2_UploadIffNotFound ==
    \A f \in FileIds :
        /\ Called("upload", f) =>
              lookupSeen[f].res = "NotFound" /\ CalledBefore("lookup", "upload", f)
        /\ lookupSeen[f].res = "NotFound" =>
              Called("upload", f) \/ (pc = "upload" /\ idx = f)
        /\ (pc = "upload" /\ idx = f) => lookupSeen[f].res = "NotFound"
        /\ lookupSeen[f].res = "Found" =>
              /\ outcome[f] = "AlreadyScanned"
              /\ Passed(f)
              /\ ~Called("upload", f)
              /\ \E k \in DOMAIN out :
                    /\ out[k].f = f
                    /\ out[k].kind = "found"
                    /\ out[k].url = Sprintf(jottiChecksumURL, digest[f])
        /\ lookupSeen[f].res = "Error" =>
              outcome[f] = "Error" /\ Passed(f) /\ ~Called("upload", f)

C2_Witness ==
    \E f, g \in FileIds :
        /\ Called("upload", f)
        /\ lookupSeen[g].res = "Found"
        /\ outcome[g] = "AlreadyScanned"

\* C3: every per-file error ends that file as Error or Skipped and the loop
\* moves on; a run that entered the loop ends, and unless the rate limit ended
\* it, it ends with exit status 0 after every file of the list was processed.
AllProcessed ==
    \A g \in 1..argc : Called("stat", g) /\ outcome[g] # "none"
C3_Final ==
    /\ pc = "exited"
    /\ \/ \E f \in FileIds : RateExit(f)
       \/ exitCode = 0 /\ AllProcessed
C3_ErrorsRecovered ==
    /\ [](\A f \in FileIds :
            outcome[f] \in {"Error", "Skipped"} =>
                /\ Passed(f)
                /\ exitCode \in {Running, 0, RateLimitExitCode}
                /\ (pc = "exited" /\ f < argc) => Called("stat", f + 1))
    /\ ((pc = "stat") ~> C3_Final)

C3_Witness ==
    /\ pc = "exited"
    /\ exitCode = 0
    /\ argc = 2
    /\ Called("upload", 1)
    /\ outcome[1] = "Error"
    /\ outcome[2] = "Uploaded"

\* C4: a file whose stat size exceeds 250 MiB is skipped and logged with no
\* hashing, lookup or upload; a regular file of exactly 250 MiB is not skipped
\* and goes on to hashing.
C4_SizeCeiling ==
    \A f \in FileIds :
        /\ (statSeen[f].seen /\ ~statSeen[f].err /\ statSeen[f].size > 250 * 1024 * 1024) =>
              /\ outcome[f] = "Skipped"
              /\ CallsOf(f) = <<<<"stat", f>>>>
              /\ Kinds(f) = <<"skip">>
        /\ (statSeen[f].seen /\ statSeen[f].kind = "regular"
              /\ statSeen[f].size = 250 * 1024 * 1024) =>
              /\ outcome[f] # "Skipped"
              /\ Called("hash", f) \/ (pc = "hash" /\ idx = f)

C4_Witness ==
    \E f, g \in FileIds :
        /\ statSeen[f].seen /\ statSeen[f].size > 250 * 1024 * 1024
        /\ outcome[f] = "Skipped"
        /\ statSeen[g].seen /\ statSeen[g].size = 250 * 1024 * 1024
        /\ Called("hash", g)

\* C5: after every file reaches a terminal outcome the orchestrator sleeps the
\* 1 s delay before it advances to the next file, whatever the outcome.
C5_DelayAfterEveryFile ==
    \A f \in FileIds :
        (Passed(f) /\ f < argc) => Called("sleep", f)

\* C6 as stated: every lookup answered with HTTP 200 and a body containing
\* "Hash not found", whatever else the body contains, yields NotFound with the
\* query URL, and the upload of that file is not skipped.
C6_NotFoundMarkerAlways ==
    \A f \in FileIds :
        (lookupSeen[f].ok /\ lookupSeen[f].nf) =>
            /\ lookupSeen[f].res = "NotFound"
            /\ lookupSeen[f].url = Sprintf(jottiChecksumURL, digest[f])
            /\ Called("upload", f) \/ (pc = "upload" /\ idx = f)

\* C6 amended: every lookup answered with HTTP 200 and a body that contains
\* "Hash not found" and does not contain "Too many requests" yields NotFound
\* with the query URL, and the upload of that file is not skipped.
C6_NotFoundMarkerNoRateLimit ==
    \A f \in FileIds :
        (lookupSeen[f].ok /\ lookupSeen[f].nf /\ ~lookupSeen[f].rl) =>
            /\ lookupSeen[f].res = "NotFound"
            /\ lookupSeen[f].url = Sprintf(jottiChecksumURL, digest[f])
            /\ Called("upload", f) \/ (pc = "upload" /\ idx = f)

C6_Witness ==
    \E f \in FileIds :
        /\ lookupSeen[f].ok /\ lookupSeen[f].nf /\ ~lookupSeen[f].rl
        /\ lookupSeen[f].res = "NotFound"
        /\ Called("upload", f)

\* C7: once any response of the run (a lookup response of any status, or an
\* upload response) has carried the rate-limit marker, the run is over with the
\* rate-limit exit code: nothing further is requested or processed.
C7_RateLimitHonored ==
    rateSeen => (pc = "exited" /\ exitCode = RateLimitExitCode)

\* C8: a directory argument is logged as skipped and nothing else is done
\* with it (no checksum, lookup or upload), and the loop goes on to the next
\* argument.
C8_DirectorySkipped ==
    \A f \in FileIds :
        (statSeen[f].seen /\ statSeen[f].kind = "dir") =>
            /\ outcome[f] = "Skipped"
            /\ Kinds(f) = <<"skip">>
            /\ CallsOf(f) = <<<<"stat", f>>>>
            /\ Passed(f)
            /\ f < argc => (Called("stat", f + 1) \/ (pc = "stat" /\ idx = f + 1))

C8_Witness ==
    /\ statSeen[1].kind = "dir"
    /\ outcome[1] = "Skipped"
    /\ outcome[2] = "Uploaded"

\* C9: the exit status is 0 whenever the loop ran to completion, errors logged
\* or not; it is non-zero on rate-limit detection, and differs from the status
\* log.Fatal gives when no argument is passed.
NoArgsFatal == \E k \in DOMAIN out : out[k].f = 0 /\ out[k].kind = "error"
C9_ExitStatus ==
    /\ LoopCompleted => exitCode = 0
    /\ \A f \in FileIds :
          RateExit(f) => (pc = "exited" /\ exitCode # 0 /\ exitCode # 1)
    /\ NoArgsFatal => (pc = "exited" /\ exitCode = 1 /\ argc = 0)
    /\ (pc = "exited" /\ exitCode = 1) => NoArgsFatal

C9_Witness ==
    /\ LoopCompleted
    /\ exitCode = 0
    /\ \A f \in 1..argc : outcome[f] = "Error"

\* the three shapes the output of a file takes after its checksum line; the
\* progress rendering is there when the transport drained the request body
AfterFound == {<<"found">>}
AfterUploaded == {<<"uploading", "ok", "url">>, <<"uploading", "progress", "ok", "url">>}
AfterError == {<<"error">>, <<"uploading", "error">>, <<"uploading", "progress", "error">>}
Finished(f) == Passed(f) \/ (pc = "exited" /\ idx = f /\ lookupSeen[f].res = "Exit")
Entered(f) == Finished(f) /\ statSeen[f].seen

\* C10 as stated: the output of every file of the list is a checksum line
\* first, followed by exactly one of a found line with the URL, upload
\* progress then OK and the result URL, or an error line; the URL after an
\* upload is the lookup URL of that file's digest.
C10_OutputSequence ==
    \A f \in FileIds :
        Entered(f) =>
            /\ Len(Kinds(f)) >= 2
            /\ Kinds(f)[1] = "checksum"
            /\ Tail(Kinds(f)) \in AfterFound \cup AfterUploaded \cup AfterError
            /\ \A k \in DOMAIN FileOut(f) :
                  FileOut(f)[k].kind \in {"found", "url"} =>
                      FileOut(f)[k].url = Sprintf(jottiChecksumURL, digest[f])

\* C10 amended: a file whose checksum was computed prints the checksum line
\* first, followed by exactly one of a found line with the URL, the upload
\* announcement and progress then OK and the result URL, or an error line
\* (after the upload announcement when the upload failed); a file that fails
\* before that (stat error, directory, oversize, checksum error) prints its
\* one error or skip line only.  The URL after an upload is the lookup URL of
\* that file's digest.
C10_OutputSequenceAfterChecksum ==
    \A f \in FileIds :
        Entered(f) =>
            IF digest[f] # NoSum
            THEN /\ Len(Kinds(f)) >= 2
                 /\ FileOut(f)[1].kind = "checksum"
                 /\ FileOut(f)[1].sum = digest[f]
                 /\ Tail(Kinds(f)) \in
                       (CASE outcome[f] = "AlreadyScanned" -> AfterFound
                          [] outcome[f] = "Uploaded" -> AfterUploaded
                          [] OTHER -> AfterError)
                 /\ \A k \in DOMAIN FileOut(f) :
                       FileOut(f)[k].kind \in {"found", "url"} =>
                           /\ FileOut(f)[k].url = Sprintf(jottiChecksumURL, digest[f])
                           /\ FileOut(f)[k].url = lookupSeen[f].url
            ELSE Kinds(f) \in {<<"error">>, <<"skip">>}

C10_Witness ==
    \E f, g \in FileIds :
        /\ Passed(f) /\ outcome[f] = "Uploaded"
        /\ Kinds(f) = <<"checksum", "uploading", "progress", "ok", "url">>
        /\ Passed(g) /\ outcome[g] = "AlreadyScanned"

\* C11: checkJottiSearch yields Found, with the query URL, exactly when the
\* response has status 200 and its body carries neither marker; a response of
\* any other status and a network-level failure yield Error, whatever the body.
C11_FoundExactly ==
    \A f \in FileIds :
        lookupSeen[f].seen =>
            /\ lookupSeen[f].res = "Found" <=>
                  (lookupSeen[f].ok /\ ~lookupSeen[f].nf /\ ~lookupSeen[f].rl)
            /\ lookupSeen[f].res = "Found" =>
                  lookupSeen[f].url = Sprintf(jottiChecksumURL, digest[f])
            /\ ~lookupSeen[f].ok => lookupSeen[f].res = "Error"

C11_Witness ==
    \E f, g \in FileIds :
        /\ lookupSeen[f].res = "Found"
        /\ lookupSeen[g].net /\ ~lookupSeen[g].ok /\ lookupSeen[g].rl
        /\ lookupSeen[g].res = "Error"

\* C12: throughout an upload stream 0 <= read <= total, read never decreases,
\* and read = total once the underlying source is exhausted, however the body
\* is split into Read calls.
C12_ReadCount ==
    /\ [](prOpen =>
            /\ 0 <= p.read
            /\ p.read <= p.total
            /\ (srcPos = p.total \/ prHist.last.eof) => p.read = p.total)
    /\ [][p'.read >= p.read]_vars

C12_Witness ==
    /\ prOpen
    /\ p.total = 3
    /\ prHist.nReads >= 3
    /\ prHist.last.eof
    /\ p.read = p.total

\* C13: in one upload stream the "100.00% (sent) - waiting response..." state
\* is rendered exactly once: at end-of-stream, not before the last byte was
\* read, and not again on any later Read call.
C13_DoneRenderedOnce ==
    prOpen =>
        /\ prHist.doneRenders <= 1
        /\ ~prHist.doneBeforeEnd
        /\ prHist.last.eof => prHist.doneRenders = 1

C15_Transparent ==
    prOpen =>
        /\ prHist.last = prHist.refLast
        /\ srcPos = prHist.refPos
        /\ prHist.srcCalls = prHist.nReads

C15_Witness ==
    /\ prOpen
    /\ prHist.nReads >= 3
    /\ prHist.renders >= 1
    /\ prHist.last.eof

\* C16: for each entry of the argument list at most one lookup request and at
\* most one upload POST are made, whatever their outcome; a failed lookup or
\* upload is not attempted again.
Count(op, f) == Len(SelectSeq(calls, LAMBDA c : c = <<op, f>>))
C16_NoRetries ==
    \A f \in FileIds :
        /\ Count("lookup", f) <= 1
        /\ Count("upload", f) <= 1
        /\ (lookupSeen[f].res = "Error" /\ Passed(f)) =>
              (Count("lookup", f) = 1 /\ Count("upload", f) = 0)
        /\ (Called("upload", f) /\ outcome[f] = "Error" /\ Passed(f)) =>
              (Count("lookup", f) = 1 /\ Count("upload", f) = 1)

C16_Witness ==
    \E f, g \in FileIds :
        /\ pc = "exited"
        /\ lookupSeen[f].res = "Error"
        /\ Called("upload", g)
        /\ outcome[g] = "Error"

\* C17: only regular files are handed to calculateSHA1Checksum: an argument
\* whose stat reports a directory or any other non-regular kind is Skipped and
\* is never hashed, looked up or uploaded.
C17_OnlyRegularHashed ==
    \A f \in FileIds :
        /\ (statSeen[f].seen /\ ~statSeen[f].err /\ statSeen[f].kind # "regular") =>
              /\ outcome[f] = "Skipped"
              /\ CallsOf(f) = <<<<"stat", f>>>>
        /\ (Called("hash", f) \/ (pc = "hash" /\ idx = f)) => statSeen[f].kind = "regular"

\* C18: every failure path of a file (stat error, directory, oversize,
\* checksum error, lookup error, upload error) and the rate-limit exit write a
\* diagnostic line before the loop leaves the file or the process exits.
FailurePath(f) ==
    \/ statSeen[f].seen /\ statSeen[f].err
    \/ statSeen[f].seen /\ statSeen[f].kind = "dir"
    \/ statSeen[f].seen /\ ~statSeen[f].err /\ statSeen[f].size > maxUploadSize
    \/ Called("hash", f) /\ digest[f] = NoSum
    \/ lookupSeen[f].res \in {"Error", "Exit"}
    \/ Called("upload", f) /\ outcome[f] # "Uploaded"
Diagnosed(f) ==
    /\ FileOut(f) # <<>>
    /\ FileOut(f)[Len(FileOut(f))].kind \in {"error", "skip"}
C18_NoSilentError ==
    /\ \A f \in FileIds :
          /\ FailurePath(f) => Diagnosed(f)
          /\ outcome[f] \in {"Error", "Skipped"} => (FailurePath(f) /\ Diagnosed(f))
    /\ (\E f \in FileIds : RateExit(f)) =>
          (pc = "exited" /\ out # <<>> /\ out[Len(out)].kind = "error")

C18_Witness ==
    /\ pc = "exited"
    /\ Called("hash", 1) /\ digest[1] = NoSum
    /\ outcome[1] = "Error"
    /\ lookupSeen[2].res = "Exit"
    /\ Diagnosed(1) /\ Diagnosed(2)

====
